---- MODULE Spec2Model ----
(***************************************************************************)
(* Provider directory synchronisation with a persistent geocoding cache:   *)
(* GeocodingService and ProvidersService of src/services/providersService.ts*)
(*                                                                         *)
(* Time is counted in hours.  Strings are sequences of one-character       *)
(* strings, so that toLowerCase / trim / replace are computed.             *)
(***************************************************************************)
EXTENDS Integers, Sequences, FiniteSets, TLC

\* ---------------------------------------------------------------- bounds
\* Largest number of providers the remote directory serves.
MaxProviders == 2
\* Number of times the clock advances in a behaviour.
MaxTicks == 2
\* Number of syncProviders calls in a behaviour.
MaxSyncs == 2
\* Longest list of providers given to filterProviders.
MaxFiltered == 3

\* ------------------------------------------------------- program constants
\* GEOCODING_CONFIG.coordinatesCacheTimeout: 90 days, in hours.
coordinatesCacheTimeout == 2160
\* isCacheExpired(maxAgeHours = 24).
maxAgeHours == 24

\* ---------------------------------------------------------------- strings
Uppers == << "A","B","C","D","E","F","G","H","I","J","K","L","M",
             "N","O","P","Q","R","S","T","U","V","W","X","Y","Z","È" >>
Lowers == << "a","b","c","d","e","f","g","h","i","j","k","l","m",
             "n","o","p","q","r","s","t","u","v","w","x","y","z","è" >>

\* JavaScript null where a string is expected.
JsNull == << "null" >>

toLowerChar(ch) ==
    IF \E i \in 1..Len(Uppers) : Uppers[i] = ch
    THEN Lowers[CHOOSE i \in 1..Len(Uppers) : Uppers[i] = ch]
    ELSE ch

toLowerCase(s) == [i \in 1..Len(s) |-> toLowerChar(s[i])]

IsSpace(ch) == ch \in {" ", "\t"}

RECURSIVE trimStart(_)
trimStart(s) ==
    IF Len(s) > 0 /\ IsSpace(s[1]) THEN trimStart(Tail(s)) ELSE s

RECURSIVE trimEnd(_)
trimEnd(s) ==
    IF Len(s) > 0 /\ IsSpace(s[Len(s)])
    THEN trimEnd(SubSeq(s, 1, Len(s) - 1)) ELSE s

trim(s) == trimEnd(trimStart(s))

\* s.replace(/\s+/g, ' ')
RECURSIVE collapseSpaces(_)
collapseSpaces(s) ==
    IF Len(s) = 0 THEN << >>
    ELSE IF IsSpace(s[1]) THEN << " " >> \o collapseSpaces(trimStart(s))
    ELSE << s[1] >> \o collapseSpaces(Tail(s))

\* JavaScript truthiness of a string.
Truthy(s) == s # JsNull /\ Len(s) > 0

\* GeocodingService.createCacheKey; throws a TypeError on a null argument.
createCacheKeyThrows(address, city) == address = JsNull \/ city = JsNull

createCacheKey(address, city) ==
    collapseSpaces(trim(toLowerCase(address))) \o << "_" >> \o trim(toLowerCase(city))

\* ----------------------------------------------------------------- inputs
RueA == << "R","u","e"," ","A" >>
RueALoose == << " ","r","u","e"," "," ","a" >>
Cotonou == << "C","o","t","o","n","o","u" >>
CotonouUpper == << "C","O","T","O","N","O","U"," " >>
Zogbo == << "Z","o","g","b","o" >>
\* Variant: an empty city is passed on as it is.
DefaultCity_Empty == << >>

\* The literal 'COTONOU' of geocodeProviders.
DefaultCity == << "C","O","T","O","N","O","U" >>

\* The (address, city) texts the remote directory and the callers use.
Places ==
    { [address |-> RueA, city |-> Cotonou],
      [address |-> RueALoose, city |-> CotonouUpper],
      [address |-> << >>, city |-> Cotonou],
      [address |-> RueA, city |-> Zogbo],
      [address |-> RueA, city |-> << >>],
      [address |-> JsNull, city |-> Cotonou] }

\* The (address, city) texts of the records of the remote directory.
DirectoryPlaces ==
    { [address |-> RueA, city |-> Cotonou],
      [address |-> RueA, city |-> Zogbo],
      [address |-> RueA, city |-> << >>],
      [address |-> JsNull, city |-> Cotonou] }

\* The texts in use, and createCacheKey tabulated over them.
AddressTexts == {p.address : p \in Places} \cup {<< >>}
CityTexts == {p.city : p \in Places} \cup {DefaultCity}

cacheKeys ==
    [a \in AddressTexts \ {JsNull}, c \in CityTexts |-> createCacheKey(a, c)]

\* ----------------------------------------------------------- coordinates
\* An absent coordinate (undefined / null).
NoCoord == [geocoding_source |-> "none"]

HasCoord(c) == c.geocoding_source # "none"

\* Variant: the comparison is turned around.
isCacheValid_Inverted(coordinates, now) ==
    now - coordinates.geocoded_at > coordinatesCacheTimeout

\* Variant: the age of the entry is not looked at.
isCacheValid_NoExpiry(coordinates, now) == TRUE

\* GeocodingService.isCacheValid
isCacheValid(coordinates, now) ==
    now - coordinates.geocoded_at < coordinatesCacheTimeout

\* The table of getFallbackCoordinates: city, latitude, longitude (1e-4 degree).
cityCoordinates ==
    { << <<"c","o","t","o","n","o","u">>, 63654, 24183 >>,
      << <<"p","o","r","t","o","-","n","o","v","o">>, 64969, 26283 >>,
      << <<"p","a","r","a","k","o","u">>, 93372, 26303 >>,
      << <<"d","j","o","u","g","o","u">>, 97086, 16706 >>,
      << <<"b","o","h","i","c","o","n">>, 71781, 20672 >>,
      << <<"k","a","n","d","i">>, 111342, 29387 >>,
      << <<"o","u","i","d","a","h">>, 63617, 20852 >>,
      << <<"a","b","o","m","e","y">>, 71826, 19912 >>,
      << <<"a","b","o","m","e","y","-","c","a","l","a","v","i">>, 64421, 23569 >>,
      << <<"l","o","k","o","s","s","a">>, 66389, 17167 >>,
      << <<"n","a","t","i","t","i","n","g","o","u">>, 103167, 13833 >>,
      << <<"s","a","v","a","l","o","u">>, 79286, 19753 >>,
      << <<"p","o","b","è">>, 69833, 26667 >>,
      << <<"t","c","h","a","o","u","r","o","u">>, 88833, 26000 >> }

\* Variant: the city is looked up as given, without toLowerCase and trim.
lookupCity_AsGiven(city) ==
    IF \E e \in cityCoordinates : e[1] = city
    THEN LET coords == CHOOSE e \in cityCoordinates : e[1] = city
         IN [known |-> TRUE, lat |-> coords[2], lng |-> coords[3]]
    ELSE [known |-> FALSE, lat |-> 0, lng |-> 0]

\* Variant: a city missing from the table gets
\* GEOCODING_CONFIG.fallbackCoordinates.
lookupCity_DefaultsToConfig(city) ==
    LET normalizedCity == trim(toLowerCase(city))
    IN IF \E e \in cityCoordinates : e[1] = normalizedCity
       THEN LET coords == CHOOSE e \in cityCoordinates : e[1] = normalizedCity
            IN [known |-> TRUE, lat |-> coords[2], lng |-> coords[3]]
       ELSE [known |-> TRUE, lat |-> 63654, lng |-> 24183]

\* cityCoordinates[normalizedCity] of getFallbackCoordinates: whether the
\* city is in the table, and its latitude and longitude.
lookupCity(city) ==
    LET normalizedCity == trim(toLowerCase(city))
    IN IF \E e \in cityCoordinates : e[1] = normalizedCity
       THEN LET coords == CHOOSE e \in cityCoordinates : e[1] = normalizedCity
            IN [known |-> TRUE, lat |-> coords[2], lng |-> coords[3]]
       ELSE [known |-> FALSE, lat |-> 0, lng |-> 0]

\* lookupCity tabulated over the texts in use.
cityLookups == [c \in CityTexts |-> lookupCity(c)]

\* Answer of the Nominatim search taken as results[0] (1e-4 degree).
NominatimHit == [lat |-> 63700, lon |-> 24300]

\* What the geocoding request can do: fetch rejects, !response.ok,
\* response.json() rejects, an empty array, an array with a result.
LookupOutcomes == {"network_error", "http_error", "bad_json", "empty", "found"}

\* Map.set / Map.delete on the in-memory cache (a function on its keys).
MapSet(m, k, v) == [x \in (DOMAIN m) \cup {k} |-> IF x = k THEN v ELSE m[x]]
MapDelete(m, k) == [x \in (DOMAIN m) \ {k} |-> m[x]]
EmptyMap == [x \in {} |-> NoCoord]

\* What a GeocodingService call gives back: whether it threw, the value
\* returned, the in-memory cache it leaves, whether a remote lookup was
\* issued and whether saveCache was called.
GeoResult(threw, coordinates, m, remote, save) ==
    [threw |-> threw, coordinates |-> coordinates, cache |-> m,
     remote |-> remote, save |-> save]

\* GeocodingService.getFallbackCoordinates, reached after a remote lookup.
getFallbackCoordinates(m, city, now) ==
    IF cityLookups[city].known
    THEN LET fallbackCoords ==
                 [latitude |-> cityLookups[city].lat,
                  longitude |-> cityLookups[city].lng,
                  geocoded_at |-> now,
                  geocoding_source |-> "fallback",
                  accuracy |-> "city_level"]
         IN GeoResult(FALSE, fallbackCoords,
                      MapSet(m, cacheKeys[<< >>, city], fallbackCoords),
                      TRUE, TRUE)
    ELSE GeoResult(FALSE, NoCoord, m, TRUE, FALSE)

\* GeocodingService.geocodeAddress after its call of initialize(): m is the
\* in-memory cache, outcome what the remote lookup does if it is issued.
geocodeAddress(m, address, city, outcome, now) ==
    IF createCacheKeyThrows(address, city)
    THEN GeoResult(TRUE, NoCoord, m, FALSE, FALSE)
    ELSE LET cacheKey == cacheKeys[address, city]
             has == cacheKey \in DOMAIN m
             hit == has /\ isCacheValid(m[cacheKey], now)
             m1 == IF has /\ ~hit THEN MapDelete(m, cacheKey) ELSE m
         IN IF hit
            THEN GeoResult(FALSE, m[cacheKey], m, FALSE, FALSE)
            ELSE IF outcome = "found"
            THEN LET coordinates ==
                         [latitude |-> NominatimHit.lat,
                          longitude |-> NominatimHit.lon,
                          geocoded_at |-> now,
                          geocoding_source |-> "api",
                          accuracy |-> IF Truthy(address) /\ Truthy(trim(address))
                                       THEN "approximate" ELSE "city_level"]
                 IN GeoResult(FALSE, coordinates,
                              MapSet(m1, cacheKey, coordinates), TRUE, TRUE)
            ELSE getFallbackCoordinates(m1, city, now)

\* ---------------------------------------------------------------- storage
\* AsyncStorage under STORAGE_KEYS; has = FALSE is a key that is not set.
NoSnapshot == [has |-> FALSE, providers |-> << >>]
NoMetadata == [has |-> FALSE, total_providers |-> 0, geocoded_providers |-> 0,
               last_full_geocoding |-> 0]
NoLastSync == [has |-> FALSE, at |-> 0]
NoGeoCache == [has |-> FALSE, map |-> EmptyMap]

EmptyStorage ==
    [providers |-> NoSnapshot,
     providers_with_coordinates |-> NoSnapshot,
     geocoding_cache |-> NoGeoCache,
     geocoding_metadata |-> NoMetadata,
     last_sync |-> NoLastSync]

\* GeocodingService.saveCache: errors are swallowed.
saveCache(st, up, m) ==
    IF up THEN [st EXCEPT !.geocoding_cache = [has |-> TRUE, map |-> m]] ELSE st

\* GeocodingService.loadCache: the stored map replaces the in-memory one.
loadCache(m, st, up) ==
    IF up /\ st.geocoding_cache.has THEN st.geocoding_cache.map ELSE m

\* The in-memory cache after GeocodingService.initialize().
initialize(m, inited, st, up) == IF inited THEN m ELSE loadCache(m, st, up)

\* GeocodingService.cleanExpiredCache after initialize(): the cache kept.
cleanExpired(m, now) ==
    [k \in {x \in DOMAIN m : ~(now - m[x].geocoded_at > coordinatesCacheTimeout)}
        |-> m[k]]

\* ------------------------------------------------------- ProvidersService
\* A record of the remote directory carries id, address and city; a Provider
\* adds coordinates (NoCoord when undefined) and last_updated.
WithCoords(p, coordinates, now) ==
    [id |-> p.id, address |-> p.address, city |-> p.city,
     coordinates |-> coordinates, last_updated |-> now]

\* providers.filter(p => p.coordinates).length
geocodedCount(providers) ==
    Cardinality({i \in 1..Len(providers) : HasCoord(providers[i].coordinates)})

\* Variant: every provider is taken as lacking coordinates.
filterByCoordinates_AllMissing(providers, located) ==
    LET F[i \in 0..Len(providers)] ==
            IF i = 0 THEN << >>
            ELSE IF located => HasCoord(providers[i].coordinates)
                 THEN Append(F[i - 1], providers[i])
                 ELSE F[i - 1]
    IN F[Len(providers)]

\* providers.filter(p => p.coordinates) when located, and
\* providers.filter(p => !p.coordinates) otherwise.
filterByCoordinates(providers, located) ==
    LET F[i \in 0..Len(providers)] ==
            IF i = 0 THEN << >>
            ELSE IF HasCoord(providers[i].coordinates) = located
                 THEN Append(F[i - 1], providers[i])
                 ELSE F[i - 1]
    IN F[Len(providers)]

\* ProvidersService.loadProvidersWithCoordinates: [] when the key is not
\* set, the value has no providers array, or the read throws.
loadProvidersWithCoordinates(st, up) ==
    IF up /\ st.providers_with_coordinates.has
    THEN st.providers_with_coordinates.providers ELSE << >>

\* Variant: the stored records whose id is not in the new list are kept
\* behind it.
saveProvidersWithCoordinates_KeepsRemoved(st, up, providers, now) ==
    LET old == st.providers_with_coordinates.providers
        kept == {j \in 1..Len(old) :
                    \A i \in 1..Len(providers) : providers[i].id # old[j].id}
        Keep[j \in 0..Len(old)] ==
            IF j = 0 THEN << >>
            ELSE IF j \in kept THEN Append(Keep[j - 1], old[j]) ELSE Keep[j - 1]
    IN IF up
       THEN [st EXCEPT
               !.providers_with_coordinates =
                   [has |-> TRUE, providers |-> providers \o Keep[Len(old)]],
               !.geocoding_metadata =
                   [has |-> TRUE,
                    total_providers |-> Len(providers),
                    geocoded_providers |-> geocodedCount(providers),
                    last_full_geocoding |-> now]]
       ELSE st

\* Variant: total_providers counts the providers that carry coordinates.
saveProvidersWithCoordinates_CountsGeocoded(st, up, providers, now) ==
    IF up
    THEN [st EXCEPT
            !.providers_with_coordinates = [has |-> TRUE, providers |-> providers],
            !.geocoding_metadata =
                [has |-> TRUE,
                 total_providers |-> geocodedCount(providers),
                 geocoded_providers |-> geocodedCount(providers),
                 last_full_geocoding |-> now]]
    ELSE st

\* ProvidersService.saveProvidersWithCoordinates: snapshot, then metadata;
\* errors are swallowed.
saveProvidersWithCoordinates(st, up, providers, now) ==
    IF up
    THEN [st EXCEPT
            !.providers_with_coordinates = [has |-> TRUE, providers |-> providers],
            !.geocoding_metadata =
                [has |-> TRUE,
                 total_providers |-> Len(providers),
                 geocoded_providers |-> geocodedCount(providers),
                 last_full_geocoding |-> now]]
    ELSE st

\* Variant: only the address of a cached provider is compared.
needsGeocodingUpdate_AddressOnly(st, up, apiProviders) ==
    LET cachedProviders == loadProvidersWithCoordinates(st, up)
        cachedIds == {cachedProviders[i].id : i \in 1..Len(cachedProviders)}
        Find(id) == cachedProviders[CHOOSE i \in 1..Len(cachedProviders) :
                        /\ cachedProviders[i].id = id
                        /\ \A j \in 1..(i - 1) : cachedProviders[j].id # id]
    IN IF ~up THEN TRUE
       ELSE IF Len(cachedProviders) = 0 THEN TRUE
       ELSE IF ~st.geocoding_metadata.has THEN TRUE
       ELSE IF st.geocoding_metadata.total_providers # Len(apiProviders) THEN TRUE
       ELSE IF \E i \in 1..Len(apiProviders) : apiProviders[i].id \notin cachedIds
            THEN TRUE
       ELSE \E i \in 1..Len(apiProviders) :
                /\ apiProviders[i].id \in cachedIds
                /\ Find(apiProviders[i].id).address # apiProviders[i].address

\* ProvidersService.needsGeocodingUpdate
needsGeocodingUpdate(st, up, apiProviders) ==
    LET cachedProviders == loadProvidersWithCoordinates(st, up)
        cachedIds == {cachedProviders[i].id : i \in 1..Len(cachedProviders)}
        Find(id) == cachedProviders[CHOOSE i \in 1..Len(cachedProviders) :
                        /\ cachedProviders[i].id = id
                        /\ \A j \in 1..(i - 1) : cachedProviders[j].id # id]
    IN IF ~up THEN TRUE
       ELSE IF Len(cachedProviders) = 0 THEN TRUE
       ELSE IF ~st.geocoding_metadata.has THEN TRUE
       ELSE IF st.geocoding_metadata.total_providers # Len(apiProviders) THEN TRUE
       ELSE IF \E i \in 1..Len(apiProviders) : apiProviders[i].id \notin cachedIds
            THEN TRUE
       ELSE \E i \in 1..Len(apiProviders) :
                /\ apiProviders[i].id \in cachedIds
                /\ \/ Find(apiProviders[i].id).address # apiProviders[i].address
                   \/ Find(apiProviders[i].id).city # apiProviders[i].city

\* Variant: a cached coordinate older than the expiry window is left out.
mergeWithCachedCoordinates_DropsExpired(st, up, apiProviders, now) ==
    LET cachedProviders == loadProvidersWithCoordinates(st, up)
        With(id) == {i \in 1..Len(cachedProviders) :
                        /\ cachedProviders[i].id = id
                        /\ HasCoord(cachedProviders[i].coordinates)
                        /\ isCacheValid(cachedProviders[i].coordinates, now)}
        Get(id) == IF With(id) = {} THEN NoCoord
                   ELSE cachedProviders[CHOOSE i \in With(id) :
                            \A j \in With(id) : j <= i].coordinates
    IN [i \in 1..Len(apiProviders) |->
            WithCoords(apiProviders[i], Get(apiProviders[i].id), now)]

\* ProvidersService.mergeWithCachedCoordinates: new Map(...) keeps, for an
\* id, the last cached record that carries coordinates.
mergeWithCachedCoordinates(st, up, apiProviders, now) ==
    LET cachedProviders == loadProvidersWithCoordinates(st, up)
        With(id) == {i \in 1..Len(cachedProviders) :
                        /\ cachedProviders[i].id = id
                        /\ HasCoord(cachedProviders[i].coordinates)}
        Get(id) == IF With(id) = {} THEN NoCoord
                   ELSE cachedProviders[CHOOSE i \in With(id) :
                            \A j \in With(id) : j <= i].coordinates
    IN [i \in 1..Len(apiProviders) |->
            WithCoords(apiProviders[i], Get(apiProviders[i].id), now)]

\* Variant: last_sync is written only when it is not set yet.
saveToCache_KeepsLastSync(st, up, providers, now) ==
    IF up
    THEN saveProvidersWithCoordinates(
             [st EXCEPT !.providers = [has |-> TRUE, providers |-> providers],
                        !.last_sync = IF st.last_sync.has THEN st.last_sync
                                      ELSE [has |-> TRUE, at |-> now]],
             up, providers, now)
    ELSE st

\* ProvidersService.saveToCache: legacy snapshot, last_sync, then the
\* snapshot with coordinates and its metadata; errors are swallowed.
saveToCache(st, up, providers, now) ==
    IF up
    THEN saveProvidersWithCoordinates(
             [st EXCEPT !.providers = [has |-> TRUE, providers |-> providers],
                        !.last_sync = [has |-> TRUE, at |-> now]],
             up, providers, now)
    ELSE st

\* ProvidersService.loadFromCache
loadFromCache(st, up) ==
    IF Len(loadProvidersWithCoordinates(st, up)) > 0
    THEN loadProvidersWithCoordinates(st, up)
    ELSE IF up /\ st.providers.has THEN st.providers.providers ELSE << >>

\* ProvidersService.isCacheExpired
isCacheExpired(st, up, now) ==
    IF ~up THEN TRUE
    ELSE IF ~st.last_sync.has THEN TRUE
    ELSE now - st.last_sync.at > maxAgeHours

\* Variant: forceRefresh is not looked at.
UseCache_IgnoresForce(forceRefresh, cacheExpired) == ~cacheExpired

\* Variant: the test of forceRefresh is turned around.
UseCache_ForcedOnly(forceRefresh, cacheExpired) == forceRefresh /\ ~cacheExpired

\* syncProviders line 680: serve the call from the persisted snapshot.
UseCache(forceRefresh, cacheExpired) == ~forceRefresh /\ ~cacheExpired

\* The ApiResponse a call returns.
Response(success, data, message) ==
    [success |-> success, data |-> data, message |-> message]

MsgFromCache == "Données chargées depuis le cache avec coordonnées"
MsgProcessed == "prestataires traités avec géolocalisation optimisée"
MsgFullCacheFallback ==
    "API inaccessible - Données depuis le cache complet avec coordonnées"
MsgCacheFallback == "API inaccessible - Données depuis le cache"
MsgFetchError == "error"
NoResponse == Response(FALSE, << >>, "")

\* ------------------------------------------------------------ directories
RECURSIVE SortedIds(_)
SortedIds(S) ==
    IF S = {} THEN << >>
    ELSE LET m == CHOOSE x \in S : \A y \in S : x <= y
         IN << m >> \o SortedIds(S \ {m})

\* The directories the remote service can answer with: at most MaxProviders
\* records with distinct ids.
Directories ==
    UNION { { [i \in 1..Len(SortedIds(S)) |->
                 [id |-> SortedIds(S)[i],
                  address |-> f[SortedIds(S)[i]].address,
                  city |-> f[SortedIds(S)[i]].city]] : f \in [S -> DirectoryPlaces] }
            : S \in SUBSET (1..MaxProviders) }

\* What the directory request can do: fetch rejects, !response.ok, an
\* envelope without success and a data array, or a directory.
FetchOutcomes ==
    { [ok |-> FALSE, data |-> << >>, why |-> w] :
        w \in {"network_error", "http_error", "invalid_format"} }
    \cup { [ok |-> TRUE, data |-> d, why |-> "ok"] : d \in Directories }

\* ------------------------------------------------------------------ state
Callers == {"c1", "c2"}
MainCallers == {"c1"}

VARIABLES
    now,            \* Date.now(), in hours
    ticks,          \* how often the clock has advanced
    syncs,          \* how many syncProviders calls were made
    storage,        \* AsyncStorage
    storageUp,      \* FALSE while every AsyncStorage call rejects
    cache,          \* GeocodingService.cache
    isInitialized,  \* GeocodingService.isInitialized
    cleanPending,   \* a background cleanExpiredCache() awaits initialize()
    task,           \* per caller, the syncProviders call in progress or returned
    last,           \* the last direct GeocodingService.geocodeAddress call
    store,          \* the state of useProvidersStore
    ui,             \* per caller, the fetchProviders / refreshProviders call in progress
    geo             \* per caller, the GeocodingService call in progress

vars == << now, ticks, syncs, storage, storageUp, cache, isInitialized, cleanPending,
           task, last, store, ui, geo >>

\* useProvidersStore as created (providersStore.ts lines 99-120): the fields
\* fetchProviders and refreshProviders write.  stats and filteredProviders are
\* computed from providers and left out.
InitialStore ==
    [providers |-> << >>, isLoading |-> FALSE, isRefreshing |-> FALSE,
     lastUpdated |-> [has |-> FALSE, at |-> 0]]

\* A call of fetchProviders or refreshProviders of the store: where it is
\* (idle, awaiting its syncProviders call, returned, or skipped by the
\* isLoading test), its forceRefresh argument, and the number of
\* syncProviders calls made before it.
NoStoreCall ==
    [pc |-> "idle", op |-> "none", forceRefresh |-> FALSE, after |-> 0]

\* A call of GeocodingService.geocodeAddress or cleanExpiredCache: where it
\* is (idle, loading: getItem of loadCache issued, loaded: getItem answered,
\* ready: initialize() has returned), its arguments, and the value getItem
\* read.
NoGeoCall ==
    [pc |-> "idle", op |-> "none", place |-> [address |-> << >>, city |-> << >>],
     read |-> NoGeoCache]

\* A call of syncProviders: where it is (pc), its argument, and what it has
\* done so far: n numbers the call, fresh tells whether at the call the
\* last-sync timestamp was at most maxAgeHours old with a non-empty snapshot
\* persisted, fetched whether the directory request was issued, fetchOk
\* whether it succeeded, apiData what it returned, needsUpdate the answer of
\* needsGeocodingUpdate, pending / geocoded / i the loop of geocodeProviders,
\* todo the length of pending, waited whether delay() has elapsed since the
\* last geocodeAddress call, moved the fetched ids whose persisted record had
\* an unexpired coordinate under another address or city, calls the
\* geocodeAddress calls of the loop,
\* before the snapshots persisted when the request failed, result the
\* response returned.
IdleTask ==
    [pc |-> "idle", n |-> 0, forceRefresh |-> FALSE, fresh |-> FALSE,
     fetched |-> FALSE, fetchOk |-> FALSE,
     apiData |-> << >>, needsUpdate |-> FALSE, pending |-> << >>,
     geocoded |-> << >>, i |-> 0, todo |-> 0, waited |-> FALSE,
     moved |-> {}, calls |-> << >>,
     before |-> << >>, result |-> NoResponse]

NoCall == [op |-> "none"]

Init ==
    /\ now = 0
    /\ ticks = 0
    /\ syncs = 0
    /\ storage = EmptyStorage
    /\ storageUp = TRUE
    /\ cache = EmptyMap
    /\ isInitialized = FALSE
    /\ cleanPending = FALSE
    /\ task = [c \in Callers |-> IdleTask]
    /\ last = NoCall
    /\ store = InitialStore
    /\ ui = [c \in Callers |-> NoStoreCall]
    /\ geo = [c \in Callers |-> NoGeoCall]

\* ---------------------------------------------------------- syncProviders
\* fetchProvidersFromAPI, catch (lines 583-602).
fetchFallback(st, up) ==
    IF Len(loadProvidersWithCoordinates(st, up)) > 0
    THEN Response(TRUE, loadProvidersWithCoordinates(st, up), MsgFullCacheFallback)
    ELSE Response(FALSE, << >>, MsgFetchError)

\* Variant: an answer without providers is reported as a failure when no
\* snapshot can be loaded.
Conclude_EmptyIsFailure(st, up, apiResponse, t) ==
    IF apiResponse.success /\ Len(apiResponse.data) > 0
    THEN [storage |-> saveToCache(st, up, apiResponse.data, t),
          result |-> apiResponse]
    ELSE [storage |-> st,
          result |-> IF Len(loadFromCache(st, up)) > 0
                     THEN Response(TRUE, loadFromCache(st, up), MsgCacheFallback)
                     ELSE Response(FALSE, << >>, MsgFetchError)]

\* syncProviders after fetchProvidersFromAPI (lines 696-712): the storage it
\* leaves and the response it returns.
Conclude(st, up, apiResponse, t) ==
    IF apiResponse.success /\ Len(apiResponse.data) > 0
    THEN [storage |-> saveToCache(st, up, apiResponse.data, t),
          result |-> apiResponse]
    ELSE [storage |-> st,
          result |-> IF Len(loadFromCache(st, up)) > 0
                     THEN Response(TRUE, loadFromCache(st, up), MsgCacheFallback)
                     ELSE apiResponse]

\* Variant: geocodeProviders runs after every successful request.
RunsGeocoding_Always(needsUpdate) == TRUE

\* fetchProvidersFromAPI line 558: geocodeProviders runs only when
\* needsGeocodingUpdate said so.
RunsGeocoding(needsUpdate) == needsUpdate

\* Variant: the loop ends at the first provider that could not be geocoded.
LoopContinues_StopsOnFailure(i, n, failed) == i < n /\ ~failed

\* geocodeProviders, the for loop (line 474): after iteration i of n comes
\* another one, whether or not the provider could be geocoded.
LoopContinues(i, n, failed) == i < n

\* geocodeProviders, catch (lines 506-515): a call that threw is not
\* followed by the delay.
DelayAfter(threw) == ~threw

\* fetchProvidersFromAPI lines 567-581 and the rest of syncProviders, for
\* caller c: tk is its task so far, providers the list to return, m the
\* in-memory cache, inited whether initialize() has run, st the storage.
\* The background cleanExpiredCache() runs at once when the service is
\* initialized, and is left pending on initialize() otherwise.
FinishFetch(c, tk, providers, m, inited, st) ==
    LET st1 == IF tk.needsUpdate
               THEN saveProvidersWithCoordinates(st, storageUp, providers, now)
               ELSE st
        m2 == IF inited THEN cleanExpired(m, now) ELSE m
        st2 == IF m2 # m THEN saveCache(st1, storageUp, m2) ELSE st1
        concl == Conclude(st2, storageUp,
                          Response(TRUE, providers, MsgProcessed), now)
    IN /\ cache' = m2
       /\ isInitialized' = inited
       /\ cleanPending' = (cleanPending \/ ~inited)
       /\ storage' = concl.storage
       /\ task' = [task EXCEPT ![c] =
                      [tk EXCEPT !.pc = "done", !.pending = << >>,
                                 !.geocoded = << >>, !.i = 0,
                                 !.result = concl.result]]

\* syncProviders(forceRefresh) up to the directory request (lines 676-694).
SyncStart(c, forceRefresh) ==
    /\ task[c].pc \in {"idle", "done"}
    /\ syncs < MaxSyncs
    /\ syncs' = syncs + 1
    /\ LET cacheExpired == isCacheExpired(storage, storageUp, now)
           cachedProviders == loadProvidersWithCoordinates(storage, storageUp)
           tk == [IdleTask EXCEPT
                    !.forceRefresh = forceRefresh,
                    !.n = syncs + 1,
                    !.fresh = /\ storage.last_sync.has
                              /\ now - storage.last_sync.at <= maxAgeHours
                              /\ storage.providers_with_coordinates.has
                              /\ Len(storage.providers_with_coordinates.providers) > 0]
       IN IF UseCache(forceRefresh, cacheExpired) /\ Len(cachedProviders) > 0
          THEN task' = [task EXCEPT ![c] =
                           [tk EXCEPT !.pc = "done",
                                      !.result = Response(TRUE, cachedProviders,
                                                          MsgFromCache)]]
          ELSE task' = [task EXCEPT ![c] =
                           [tk EXCEPT !.pc = "fetch", !.fetched = TRUE]]
    /\ last' = IF last.op = "clearCache" THEN NoCall ELSE last
    /\ UNCHANGED << store, ui, geo, now, ticks, storage, storageUp, cache, isInitialized,
                    cleanPending >>

\* Variant: a failed directory request is reported without looking for a
\* persisted snapshot.
FetchFails_ReturnsError(c, resp) ==
    /\ task[c].pc = "fetch"
    /\ ~resp.ok
    /\ task' = [task EXCEPT ![c] =
                   [@ EXCEPT !.pc = "done",
                             !.before = << [up |-> storageUp,
                                            v2 |-> storage.providers_with_coordinates,
                                            legacy |-> storage.providers] >>,
                             !.result = Response(FALSE, << >>, MsgFetchError)]]
    /\ UNCHANGED << store, ui, geo, now, ticks, syncs, storage, storageUp, cache, isInitialized,
                    cleanPending, last >>

\* The directory request fails: fetchProvidersFromAPI's catch, then the
\* rest of syncProviders.
FetchFails(c, resp) ==
    /\ task[c].pc = "fetch"
    /\ ~resp.ok
    /\ LET concl == Conclude(storage, storageUp,
                             fetchFallback(storage, storageUp), now)
       IN /\ storage' = concl.storage
          /\ task' = [task EXCEPT ![c] =
                         [@ EXCEPT !.pc = "done",
                                   !.before = << [up |-> storageUp,
                                                  v2 |-> storage.providers_with_coordinates,
                                                  legacy |-> storage.providers] >>,
                                   !.result = concl.result]]
    /\ UNCHANGED << store, ui, geo, now, ticks, syncs, storageUp, cache, isInitialized, cleanPending, last >>

\* The directory request succeeds (lines 551-572): reconcile, merge, and
\* start geocodeProviders (lines 454-470) when an update is needed.
FetchSucceeds(c, resp) ==
    /\ task[c].pc = "fetch"
    /\ resp.ok
    /\ LET needs == needsGeocodingUpdate(storage, storageUp, resp.data)
           merged == mergeWithCachedCoordinates(storage, storageUp, resp.data, now)
           snapshot == IF storageUp /\ storage.providers_with_coordinates.has
                       THEN storage.providers_with_coordinates.providers
                       ELSE << >>
           moved == {resp.data[i].id : i \in
                       {i \in 1..Len(resp.data) :
                          \E j \in 1..Len(snapshot) :
                             /\ snapshot[j].id = resp.data[i].id
                             /\ HasCoord(snapshot[j].coordinates)
                             /\ now - snapshot[j].coordinates.geocoded_at
                                    < coordinatesCacheTimeout
                             /\ \/ snapshot[j].address # resp.data[i].address
                                \/ snapshot[j].city # resp.data[i].city}}
           tk == [task[c] EXCEPT !.fetchOk = TRUE, !.apiData = resp.data,
                                 !.needsUpdate = needs, !.moved = moved]
           m0 == initialize(cache, isInitialized, storage, storageUp)
           needsGeocodingProviders == filterByCoordinates(merged, FALSE)
           alreadyGeocodedProviders == filterByCoordinates(merged, TRUE)
       IN IF ~RunsGeocoding(needs)
          THEN FinishFetch(c, tk, merged, cache, isInitialized, storage)
          ELSE IF Len(needsGeocodingProviders) = 0
          THEN FinishFetch(c, tk, merged, m0, TRUE, storage)
          ELSE /\ task' = [task EXCEPT ![c] =
                              [tk EXCEPT !.pc = "geocode",
                                         !.pending = needsGeocodingProviders,
                                         !.geocoded = alreadyGeocodedProviders,
                                         !.todo = Len(needsGeocodingProviders),
                                         !.i = 1]]
               /\ cache' = m0
               /\ isInitialized' = TRUE
               /\ UNCHANGED << storage, cleanPending >>
    /\ UNCHANGED << store, ui, geo, now, ticks, syncs, storageUp, last >>

\* One iteration of the loop of geocodeProviders (lines 474-516), and after
\* the last one the rest of the call.  A call of the loop records whether
\* delay() elapsed between the call before it and itself.
GeocodeStep(c, outcome) ==
    /\ task[c].pc = "geocode"
    /\ LET tk == task[c]
           provider == tk.pending[tk.i]
           m0 == initialize(cache, isInitialized, storage, storageUp)
           r == geocodeAddress(m0, provider.address,
                               IF Truthy(provider.city) THEN provider.city
                               ELSE DefaultCity,
                               outcome, now)
           failed == r.threw \/ ~HasCoord(r.coordinates)
           st1 == IF r.save THEN saveCache(storage, storageUp, r.cache) ELSE storage
           entry == IF r.threw THEN [provider EXCEPT !.last_updated = now]
                    ELSE WithCoords(provider, r.coordinates, now)
           city == IF Truthy(provider.city) THEN provider.city ELSE DefaultCity
           call == [id |-> provider.id, city |-> city,
                    found |-> r.remote /\ outcome = "found",
                    threw |-> r.threw,
                    located |-> HasCoord(r.coordinates),
                    remote |-> r.remote,
                    added |-> (DOMAIN r.cache) \ (DOMAIN m0) # {},
                    delayed |-> tk.waited]
           tk1 == [tk EXCEPT !.geocoded = Append(@, entry),
                             !.calls = Append(@, call),
                             !.waited = FALSE]
       IN IF LoopContinues(tk.i, Len(tk.pending), failed)
          THEN /\ task' = [task EXCEPT ![c] =
                              [tk1 EXCEPT
                                 !.pc = IF DelayAfter(r.threw) THEN "delay" ELSE "geocode",
                                 !.i = IF DelayAfter(r.threw) THEN @ ELSE @ + 1]]
               /\ cache' = r.cache
               /\ isInitialized' = TRUE
               /\ storage' = st1
               /\ UNCHANGED cleanPending
          ELSE FinishFetch(c, tk1, tk1.geocoded, r.cache, TRUE, st1)
    /\ UNCHANGED << store, ui, geo, now, ticks, syncs, storageUp, last >>

\* GeocodingService.delay() of the loop has elapsed.
DelayElapsed(c) ==
    /\ task[c].pc = "delay"
    /\ task' = [task EXCEPT ![c] = [@ EXCEPT !.pc = "geocode", !.i = @ + 1,
                                             !.waited = TRUE]]
    /\ UNCHANGED << store, ui, geo, now, ticks, syncs, storage, storageUp, cache, isInitialized,
                    cleanPending, last >>

\* The directory request (lines 532-539) has no timeout and no abort signal:
\* a request that is never answered leaves the call waiting for good.
FetchHangs(c) ==
    /\ task[c].pc = "fetch"
    /\ task' = [task EXCEPT ![c] = [@ EXCEPT !.pc = "hung"]]
    /\ UNCHANGED << store, ui, geo, now, ticks, syncs, storage, storageUp, cache, isInitialized,
                    cleanPending, last >>

\* The same for the lookup request of geocodeAddress (lines 203-207), which
\* is issued when the cache has no valid entry under the key; an entry that
\* has expired is deleted before the request.
LookupHangs(c) ==
    /\ task[c].pc = "geocode"
    /\ LET provider == task[c].pending[task[c].i]
           city == IF Truthy(provider.city) THEN provider.city ELSE DefaultCity
           m0 == initialize(cache, isInitialized, storage, storageUp)
       IN /\ ~createCacheKeyThrows(provider.address, city)
          /\ LET cacheKey == cacheKeys[provider.address, city]
                 has == cacheKey \in DOMAIN m0
             IN /\ ~(has /\ isCacheValid(m0[cacheKey], now))
                /\ cache' = IF has THEN MapDelete(m0, cacheKey) ELSE m0
    /\ isInitialized' = TRUE
    /\ task' = [task EXCEPT ![c] = [@ EXCEPT !.pc = "hung"]]
    /\ UNCHANGED << store, ui, geo, now, ticks, syncs, storage, storageUp, cleanPending, last >>

\* ------------------------------------------------------- other operations
\* providersServices.geocoding.geocodeAddress(address, city): initialize(),
\* then geocodeAddress.  last records the call: the arguments, the time, the
\* cache entry found under the key, whether the remote lookup gave a result,
\* the value returned, whether a remote lookup was issued, whether the cache
\* or the storage was written, whether a key was added, and whether the call
\* repeats the previous one (same arguments, a coordinate returned less than
\* the expiry window ago, no clear in between).
Resolve(place, outcome) ==
    LET m0 == initialize(cache, isInitialized, storage, storageUp)
        r == geocodeAddress(m0, place.address, place.city, outcome, now)
        st1 == IF r.save THEN saveCache(storage, storageUp, r.cache) ELSE storage
        throws == createCacheKeyThrows(place.address, place.city)
        key == IF throws THEN << >> ELSE cacheKeys[place.address, place.city]
    IN /\ cache' = r.cache
       /\ isInitialized' = TRUE
       /\ storage' = st1
       /\ last' = [op |-> "geocodeAddress",
                   address |-> place.address,
                   city |-> place.city,
                   at |-> now,
                   entry |-> IF ~throws /\ key \in DOMAIN m0 THEN m0[key] ELSE NoCoord,
                   found |-> r.remote /\ outcome = "found",
                   threw |-> r.threw,
                   returned |-> r.coordinates,
                   remote |-> r.remote,
                   wrote |-> (r.cache # m0 \/ st1 # storage),
                   added |-> (DOMAIN r.cache) \ (DOMAIN m0) # {},
                   repeat |-> /\ last.op = "geocodeAddress"
                              /\ last.address = place.address
                              /\ last.city = place.city
                              /\ HasCoord(last.returned)
                              /\ now - last.at < coordinatesCacheTimeout]
       /\ UNCHANGED << store, ui, geo, now, ticks, syncs, storageUp, cleanPending, task >>

\* The background GeocodingService.cleanExpiredCache() of line 575, once
\* its initialize() has completed (lines 294-314).
BackgroundClean ==
    /\ cleanPending
    /\ LET m0 == initialize(cache, isInitialized, storage, storageUp)
           m1 == cleanExpired(m0, now)
       IN /\ cache' = m1
          /\ storage' = IF m1 # m0 THEN saveCache(storage, storageUp, m1) ELSE storage
    /\ isInitialized' = TRUE
    /\ cleanPending' = FALSE
    /\ UNCHANGED << store, ui, geo, now, ticks, syncs, storageUp, task, last >>

\* providersServices.geocoding.cleanExpiredCache(), called directly.
CleanExpiredCache ==
    /\ LET m0 == initialize(cache, isInitialized, storage, storageUp)
           m1 == cleanExpired(m0, now)
       IN /\ cache' = m1
          /\ storage' = IF m1 # m0 THEN saveCache(storage, storageUp, m1) ELSE storage
    /\ isInitialized' = TRUE
    /\ UNCHANGED << store, ui, geo, now, ticks, syncs, storageUp, cleanPending, task, last >>

\* ProvidersService.clearCache (lines 817-833): the first removeItem that
\* rejects ends it, before the in-memory cache is cleared.
ClearCache ==
    /\ IF storageUp
       THEN /\ storage' = EmptyStorage
            /\ cache' = EmptyMap
            /\ last' = [op |-> "clearCache"]
       ELSE UNCHANGED << storage, cache, last >>
    /\ UNCHANGED << store, ui, geo, now, ticks, syncs, storageUp, isInitialized, cleanPending, task >>

\* GeocodingService.clearCache (lines 322-326).
GeoClearCache ==
    /\ cache' = EmptyMap
    /\ storage' = IF storageUp THEN [storage EXCEPT !.geocoding_cache = NoGeoCache]
                  ELSE storage
    /\ last' = [op |-> "geocoding.clearCache", threw |-> ~storageUp]
    /\ UNCHANGED << store, ui, geo, now, ticks, syncs, storageUp, isInitialized, cleanPending, task >>

\* The application is stopped and started again: the storage is kept, the
\* static fields of GeocodingService and the calls in progress are not; the
\* store gets back the fields it persists (providersStore.ts lines 460-470).
Restart ==
    /\ cache' = EmptyMap
    /\ isInitialized' = FALSE
    /\ cleanPending' = FALSE
    /\ task' = [c \in Callers |-> IdleTask]
    /\ last' = NoCall
    /\ store' = [store EXCEPT !.isLoading = FALSE, !.isRefreshing = FALSE]
    /\ ui' = [c \in Callers |-> NoStoreCall]
    /\ geo' = [c \in Callers |-> NoGeoCall]
    /\ UNCHANGED << now, ticks, syncs, storage, storageUp >>

\* Time passes, by the directory window or by the coordinate window; a call
\* of syncProviders takes less than an hour.
TickSteps == {maxAgeHours, coordinatesCacheTimeout}

Tick(d) ==
    /\ ticks < MaxTicks
    /\ \A c \in Callers : task[c].pc \in {"idle", "done"}
    /\ now' = now + d
    /\ ticks' = ticks + 1
    /\ UNCHANGED << store, ui, geo, syncs, storage, storageUp, cache, isInitialized, cleanPending, task, last >>

\* AsyncStorage starts or stops rejecting every call.
StorageFail ==
    /\ storageUp
    /\ storageUp' = FALSE
    /\ UNCHANGED << store, ui, geo, now, ticks, syncs, storage, cache, isInitialized, cleanPending, task, last >>

StorageRecover ==
    /\ ~storageUp
    /\ storageUp' = TRUE
    /\ UNCHANGED << store, ui, geo, now, ticks, syncs, storage, cache, isInitialized, cleanPending, task, last >>

\* ------------------------------------------------------ useProvidersStore
\* The store calls that have not yet reached their syncProviders call.
NotYetSyncing ==
    {c \in Callers : ui[c].pc = "awaiting" /\ task[c].n <= ui[c].after}

\* fetchProviders(forceRefresh) up to its await (providersStore.ts lines
\* 122-131): the call returns at once when isLoading is set and forceRefresh
\* is not, and sets isLoading otherwise.  op names the store action the user
\* triggered; refreshProviders (lines 160-164) sets isRefreshing and calls
\* fetchProviders(true).
StartFetch(c, forceRefresh, op) ==
    /\ ui[c].pc # "awaiting"
    /\ task[c].pc \in {"idle", "done"}
    /\ syncs + Cardinality(NotYetSyncing) < MaxSyncs
    /\ LET st == [store EXCEPT !.isRefreshing = IF op = "refreshProviders"
                                                THEN TRUE ELSE @]
       IN IF st.isLoading /\ ~forceRefresh
          THEN /\ store' = st
               /\ ui' = [ui EXCEPT ![c] =
                            [pc |-> "skipped", op |-> op,
                             forceRefresh |-> forceRefresh, after |-> syncs]]
          ELSE /\ store' = [st EXCEPT !.isLoading = TRUE]
               /\ ui' = [ui EXCEPT ![c] =
                            [pc |-> "awaiting", op |-> op,
                             forceRefresh |-> forceRefresh, after |-> syncs]]
    /\ UNCHANGED << geo, now, ticks, syncs, storage, storageUp, cache,
                    isInitialized, cleanPending, task, last >>

\* useProvidersStore.fetchProviders(forceRefresh)
FetchProviders(c, forceRefresh) == StartFetch(c, forceRefresh, "fetchProviders")

\* useProvidersStore.refreshProviders()
RefreshProviders(c) == StartFetch(c, TRUE, "refreshProviders")

\* providersServices.sync(forceRefresh) called by fetchProviders (line 133).
StoreSync(c) ==
    /\ c \in NotYetSyncing
    /\ SyncStart(c, ui[c].forceRefresh)

\* fetchProviders after its await (lines 135-155), and the finally of
\* refreshProviders (lines 165-167).
FetchProvidersReturns(c) ==
    /\ ui[c].pc = "awaiting"
    /\ task[c].n > ui[c].after
    /\ task[c].pc = "done"
    /\ LET response == task[c].result
           st == IF response.success /\ Len(response.data) > 0
                 THEN [store EXCEPT !.providers = response.data,
                                    !.lastUpdated = [has |-> TRUE, at |-> now],
                                    !.isLoading = FALSE]
                 ELSE [store EXCEPT !.isLoading = FALSE]
       IN store' = [st EXCEPT !.isRefreshing = IF ui[c].op = "refreshProviders"
                                               THEN FALSE ELSE @]
    /\ ui' = [ui EXCEPT ![c] = [@ EXCEPT !.pc = "returned"]]
    /\ UNCHANGED << geo, now, ticks, syncs, storage, storageUp, cache,
                    isInitialized, cleanPending, task, last >>

\* The directory answers of the store's runs: a failure, or a directory of
\* providers of one address.
StoreFetchOutcomes ==
    {resp \in FetchOutcomes :
        \A i \in 1..Len(resp.data) :
            resp.data[i].address = RueA /\ resp.data[i].city = Cotonou}

\* ------------------------------------- GeocodingService, calls that overlap
\* The places of the calls that overlap.
RacePlaces ==
    { [address |-> RueA, city |-> Cotonou],
      [address |-> RueA, city |-> Zogbo] }

\* geocodeAddress(place) or cleanExpiredCache() is called: initialize() tests
\* isInitialized (line 120) and, when it is not set, awaits loadCache().
GeoCall(c, op, place) ==
    /\ geo[c].pc = "idle"
    /\ geo' = [geo EXCEPT ![c] =
                  [pc |-> IF isInitialized THEN "ready" ELSE "loading",
                   op |-> op, place |-> place, read |-> NoGeoCache]]
    /\ UNCHANGED << store, ui, now, ticks, syncs, storage, storageUp, cache,
                    isInitialized, cleanPending, task, last >>

\* AsyncStorage answers the getItem of loadCache (line 131).
LoadReads(c) ==
    /\ geo[c].pc = "loading"
    /\ geo' = [geo EXCEPT ![c] =
                  [@ EXCEPT !.pc = "loaded",
                            !.read = IF storageUp THEN storage.geocoding_cache
                                     ELSE NoGeoCache]]
    /\ UNCHANGED << store, ui, now, ticks, syncs, storage, storageUp, cache,
                    isInitialized, cleanPending, task, last >>

\* loadCache goes on after its await (lines 132-136): the value read takes
\* the place of the in-memory cache; then initialize() sets isInitialized
\* (line 124).
LoadCompletes(c) ==
    /\ geo[c].pc = "loaded"
    /\ cache' = IF geo[c].read.has THEN geo[c].read.map ELSE cache
    /\ isInitialized' = TRUE
    /\ geo' = [geo EXCEPT ![c] = [@ EXCEPT !.pc = "ready", !.read = NoGeoCache]]
    /\ UNCHANGED << store, ui, now, ticks, syncs, storage, storageUp,
                    cleanPending, task, last >>

\* The call goes on after initialize(): geocodeAddress from line 174,
\* cleanExpiredCache from line 297.
GeoCallRuns(c, outcome) ==
    /\ geo[c].pc = "ready"
    /\ IF geo[c].op = "geocodeAddress"
       THEN LET r == geocodeAddress(cache, geo[c].place.address,
                                    geo[c].place.city, outcome, now)
            IN /\ cache' = r.cache
               /\ storage' = IF r.save THEN saveCache(storage, storageUp, r.cache)
                             ELSE storage
       ELSE LET m1 == cleanExpired(cache, now)
            IN /\ cache' = m1
               /\ storage' = IF m1 # cache THEN saveCache(storage, storageUp, m1)
                             ELSE storage
    /\ geo' = [geo EXCEPT ![c] = NoGeoCall]
    /\ UNCHANGED << store, ui, now, ticks, syncs, storageUp, isInitialized,
                    cleanPending, task, last >>

\* Time passes while no GeocodingService call is in progress.
RaceTick(d) ==
    /\ \A c \in Callers : geo[c].pc = "idle"
    /\ Tick(d)

\* --------------------------------------------------------- filterProviders
\* An optional value of a filter: left out, or given.
Absent == [has |-> FALSE]
Some(v) == [has |-> TRUE, v |-> v]

\* if (x) on an optional string, number or object of the filter.
TruthyText(x) == x.has /\ Len(x.v) > 0
TruthyNumber(x) == x.has /\ x.v # 0

\* String.prototype.includes
includes(s, sub) ==
    \E i \in 0..(Len(s) - Len(sub)) : SubSeq(s, i + 1, i + Len(sub)) = sub

\* distance_from_user of a record that did not pass the near-location filter.
NoDistance == -1

\* Millimetres per 1e-4 degree of latitude on a sphere of R = 6371 km.
MillimetresPerUnit == 11119

\* radiusKm of line 760 when the filter gives none.
defaultRadiusKm == 10

\* ProvidersService.calculateDistance for two points of one meridian, where
\* a = sin^2(dLat / 2) and R * c = R * |dLat|: in millimetres, for
\* latitudes in 1e-4 degree.
calculateDistance(lat1, lng1, lat2, lng2) ==
    (IF lat2 >= lat1 THEN lat2 - lat1 ELSE lat1 - lat2) * MillimetresPerUnit

\* Array.prototype.sort((a, b) => a.distance_from_user - b.distance_from_user),
\* which is stable.
RECURSIVE sortByDistance(_)
sortByDistance(seq) ==
    IF Len(seq) <= 1 THEN seq
    ELSE LET rest == sortByDistance(SubSeq(seq, 1, Len(seq) - 1))
             x == seq[Len(seq)]
             n == Cardinality({k \in 1..Len(rest) :
                                  rest[k].distance_from_user <= x.distance_from_user})
         IN SubSeq(rest, 1, n) \o << x >> \o SubSeq(rest, n + 1, Len(rest))

\* ProvidersService.filterProviders
filterProviders(providers, filter) ==
    LET ByType(p) == includes(toLowerCase(p.provider_type), toLowerCase(filter.type.v))
        ByCity(p) == includes(toLowerCase(p.city), toLowerCase(filter.city.v))
        BySector(p) == p.sector = filter.sector.v
        ByAgreeged(p) == p.agreeged = filter.agreeged.v
        searchLower == toLowerCase(filter.searchText.v)
        ByText(p) ==
            \/ includes(toLowerCase(p.title), searchLower)
            \/ includes(toLowerCase(p.address), searchLower)
            \/ includes(toLowerCase(p.provider_type), searchLower)
            \/ \E e \in 1..Len(p.emails) : includes(toLowerCase(p.emails[e]), searchLower)
        f1 == IF TruthyText(filter.type) THEN SelectSeq(providers, ByType) ELSE providers
        f2 == IF TruthyText(filter.city) THEN SelectSeq(f1, ByCity) ELSE f1
        f3 == IF filter.sector.has THEN SelectSeq(f2, BySector) ELSE f2
        f4 == IF filter.agreeged.has THEN SelectSeq(f3, ByAgreeged) ELSE f3
        f5 == IF TruthyText(filter.searchText) THEN SelectSeq(f4, ByText) ELSE f4
        near == filter.nearLocation
        radius == (IF TruthyNumber(near.radiusKm) THEN near.radiusKm.v
                   ELSE defaultRadiusKm) * 1000000
        Located(p) == HasCoord(p.coordinates)
        located == SelectSeq(f5, Located)
        measured == [k \in 1..Len(located) |->
                        [located[k] EXCEPT !.distance_from_user =
                            calculateDistance(near.latitude, near.longitude,
                                              located[k].coordinates.latitude,
                                              located[k].coordinates.longitude)]]
        Within(p) == p.distance_from_user <= radius
    IN IF near.has /\ near.latitude # 0 /\ near.longitude # 0
       THEN sortByDistance(SelectSeq(measured, Within))
       ELSE f5

\* The providers the store holds when it filters.
FilterCoords(lat) ==
    [latitude |-> lat, longitude |-> 24183, geocoded_at |-> 0,
     geocoding_source |-> "api", accuracy |-> "approximate"]

FilterRecord(id, city, type, sector, agreeged, emails, coordinates) ==
    [id |-> id, title |-> << "A", "b" >>, address |-> RueA, city |-> city,
     provider_type |-> type, sector |-> sector, agreeged |-> agreeged,
     emails |-> emails, coordinates |-> coordinates,
     distance_from_user |-> NoDistance]

FilterRecords ==
    { FilterRecord(1, Cotonou, << "P", "h" >>, "privé", TRUE,
                   << << "a", "@", "b" >> >>, FilterCoords(64000)),
      FilterRecord(2, Cotonou, << "C", "l" >>, "public", FALSE,
                   << >>, FilterCoords(63654)),
      FilterRecord(3, Zogbo, << "P", "h" >>, "public", TRUE,
                   << >>, NoCoord),
      FilterRecord(4, Zogbo, << "C", "l" >>, "privé", FALSE,
                   << >>, FilterCoords(73654)) }

\* Lists of up to MaxFiltered distinct providers, in any order.
FilterLists ==
    UNION { {seq \in [1..n -> FilterRecords] :
                \A i, j \in 1..n : i # j => seq[i] # seq[j]} : n \in 0..MaxFiltered }

\* nearLocation of a filter: none, or a point of the meridian of the
\* providers with a radius in km or without.
NearLocations ==
    { [has |-> FALSE, latitude |-> 0, longitude |-> 0, radiusKm |-> Absent] }
    \cup { [has |-> TRUE, latitude |-> lat, longitude |-> 24183, radiusKm |-> r] :
              lat \in {0, 63654}, r \in {Absent, Some(0), Some(5)} }

Filters ==
    [type : {Absent, Some(<< "p", "H" >>)},
     city : {Absent, Some(<< "C", "O", "T" >>)},
     sector : {Absent, Some("public")},
     agreeged : {Absent, Some(TRUE), Some(FALSE)},
     searchText : {Absent, Some(<< "@" >>)},
     nearLocation : NearLocations]

\* The store is about to filter its providers (applyFilters).
FilterInit ==
    /\ now = 0
    /\ ticks = 0
    /\ syncs = 0
    /\ storage = EmptyStorage
    /\ storageUp = TRUE
    /\ cache = EmptyMap
    /\ isInitialized = FALSE
    /\ cleanPending = FALSE
    /\ task = [c \in Callers |-> IdleTask]
    /\ last \in [op : {"applyFilters"}, providers : FilterLists, filter : Filters]
    /\ store = InitialStore
    /\ ui = [c \in Callers |-> NoStoreCall]
    /\ geo = [c \in Callers |-> NoGeoCall]

\* providersServices.filter(providers, filter)
FilterProviders ==
    /\ last.op = "applyFilters"
    /\ last' = [op |-> "filter", providers |-> last.providers,
                filter |-> last.filter,
                result |-> filterProviders(last.providers, last.filter)]
    /\ UNCHANGED << store, ui, geo, now, ticks, syncs, storage, storageUp, cache, isInitialized,
                    cleanPending, task >>

FilterNext == FilterProviders

FilterSpec == FilterInit /\ [][FilterNext]_vars

\* ------------------------------------------ mergeWithCachedCoordinates alone
\* The coordinates a persisted record can carry: none, or one resolved at
\* time 0.
StoredCoordinates ==
    { NoCoord,
      [latitude |-> NominatimHit.lat, longitude |-> NominatimHit.lon,
       geocoded_at |-> 0, geocoding_source |-> "api", accuracy |-> "approximate"] }

\* The snapshots an earlier sync at time 0 can have persisted: a directory,
\* each record with or without a coordinate.
MergeSnapshots ==
    UNION { { [i \in 1..Len(d) |-> WithCoords(d[i], f[i], 0)] :
                f \in [1..Len(d) -> StoredCoordinates] } : d \in Directories }

\* A snapshot is persisted or none is, and the directory request has
\* answered with a directory.
MergeInit ==
    /\ now = 0
    /\ ticks = 0
    /\ syncs = 0
    /\ storage \in
          {EmptyStorage}
          \cup { saveToCache(EmptyStorage, TRUE, s, 0) : s \in MergeSnapshots }
    /\ storageUp = TRUE
    /\ cache = EmptyMap
    /\ isInitialized = FALSE
    /\ cleanPending = FALSE
    /\ task = [c \in Callers |-> IdleTask]
    /\ last \in [op : {"fetched"}, fresh : Directories, runs : {0},
                 result : {<< >>}]
    /\ store = InitialStore
    /\ ui = [c \in Callers |-> NoStoreCall]
    /\ geo = [c \in Callers |-> NoGeoCall]

\* mergeWithCachedCoordinates(apiProviders) is run, a first and a second
\* time; last keeps the list it returned.
MergeRun ==
    /\ last.op \in {"fetched", "merge"}
    /\ last.runs < 2
    /\ last' = [op |-> "merge", fresh |-> last.fresh, runs |-> last.runs + 1,
                result |-> mergeWithCachedCoordinates(storage, storageUp,
                                                      last.fresh, now)]
    /\ UNCHANGED << store, ui, geo, now, ticks, syncs, storage, storageUp, cache, isInitialized,
                    cleanPending, task >>

MergeNext ==
    \/ MergeRun
    \/ \E d \in TickSteps : Tick(d)

MergeSpec == MergeInit /\ [][MergeNext]_vars

\* ProvidersService as the application uses it: syncProviders and
\* clearCache, with a storage that works throughout.
Next ==
    \/ \E c \in MainCallers, f \in BOOLEAN : SyncStart(c, f)
    \/ \E c \in MainCallers, resp \in FetchOutcomes : FetchFails(c, resp)
    \/ \E c \in MainCallers, resp \in FetchOutcomes : FetchSucceeds(c, resp)
    \/ \E c \in MainCallers, o \in LookupOutcomes : GeocodeStep(c, o)
    \/ \E c \in MainCallers : DelayElapsed(c)
    \/ BackgroundClean
    \/ ClearCache
    \/ Restart
    \/ \E d \in TickSteps : Tick(d)

Spec == Init /\ [][Next]_vars

\* The same, with a storage that may reject calls.
FaultyNext ==
    \/ \E c \in MainCallers, f \in BOOLEAN : SyncStart(c, f)
    \/ \E c \in MainCallers, resp \in FetchOutcomes : FetchFails(c, resp)
    \/ \E c \in MainCallers, resp \in FetchOutcomes : FetchSucceeds(c, resp)
    \/ \E c \in MainCallers, o \in LookupOutcomes : GeocodeStep(c, o)
    \/ \E c \in MainCallers : DelayElapsed(c)
    \/ StorageFail
    \/ StorageRecover

FaultySpec == Init /\ [][FaultyNext]_vars

\* syncProviders called by two callers at once: fetchProviders(true) of
\* refreshProviders passes the store's isLoading test while another call is
\* in progress (providersStore.ts lines 126 and 164).
OverlapNext ==
    \/ \E c \in Callers, f \in BOOLEAN : SyncStart(c, f)
    \/ \E c \in Callers, resp \in FetchOutcomes : FetchFails(c, resp)
    \/ \E c \in Callers, resp \in FetchOutcomes : FetchSucceeds(c, resp)
    \/ \E c \in Callers, o \in LookupOutcomes : GeocodeStep(c, o)
    \/ \E c \in Callers : DelayElapsed(c)

OverlapSpec == Init /\ [][OverlapNext]_vars

\* GeocodingService called directly through providersServices.geocoding.
GeoNext ==
    \/ \E p \in Places, o \in LookupOutcomes : Resolve(p, o)
    \/ CleanExpiredCache
    \/ GeoClearCache
    \/ Restart
    \/ \E d \in TickSteps : Tick(d)

GeoSpec == Init /\ [][GeoNext]_vars

\* The same, with a storage that may reject calls.
GeoFaultyNext ==
    \/ \E p \in Places, o \in LookupOutcomes : Resolve(p, o)
    \/ CleanExpiredCache
    \/ GeoClearCache
    \/ StorageFail
    \/ StorageRecover

GeoFaultySpec == Init /\ [][GeoFaultyNext]_vars

\* syncProviders with remote services that may leave a request unanswered.
\* Whatever the event loop can run is run (a timer that has elapsed, the
\* continuation of an answered request); an unanswered request is a step
\* of its own.
UnresponsiveNext ==
    \/ \E c \in MainCallers, f \in BOOLEAN : SyncStart(c, f)
    \/ \E c \in MainCallers, resp \in FetchOutcomes : FetchFails(c, resp)
    \/ \E c \in MainCallers, resp \in FetchOutcomes : FetchSucceeds(c, resp)
    \/ \E c \in MainCallers, o \in LookupOutcomes : GeocodeStep(c, o)
    \/ \E c \in MainCallers : DelayElapsed(c)
    \/ \E c \in MainCallers : FetchHangs(c)
    \/ \E c \in MainCallers : LookupHangs(c)

UnresponsiveSpec == Init /\ [][UnresponsiveNext]_vars /\ WF_vars(UnresponsiveNext)

\* The screens call fetchProviders and refreshProviders of the store, which
\* call syncProviders.
StoreNext ==
    \/ \E c \in Callers, f \in BOOLEAN : FetchProviders(c, f)
    \/ \E c \in Callers : RefreshProviders(c)
    \/ \E c \in Callers : StoreSync(c)
    \/ \E c \in Callers, resp \in StoreFetchOutcomes : FetchFails(c, resp)
    \/ \E c \in Callers, resp \in StoreFetchOutcomes : FetchSucceeds(c, resp)
    \/ \E c \in Callers, o \in LookupOutcomes : GeocodeStep(c, o)
    \/ \E c \in Callers : DelayElapsed(c)
    \/ \E c \in Callers : FetchProvidersReturns(c)

StoreSpec == Init /\ [][StoreNext]_vars

\* GeocodingService called by two callers whose calls may overlap: direct
\* geocodeAddress calls and the cleanExpiredCache() that fetchProvidersFromAPI
\* starts without awaiting it (line 575).
RaceNext ==
    \/ \E c \in Callers, p \in RacePlaces : GeoCall(c, "geocodeAddress", p)
    \/ \E c \in Callers :
          GeoCall(c, "cleanExpiredCache", [address |-> << >>, city |-> << >>])
    \/ \E c \in Callers : LoadReads(c)
    \/ \E c \in Callers : LoadCompletes(c)
    \/ \E c \in Callers, o \in LookupOutcomes : GeoCallRuns(c, o)
    \/ \E d \in TickSteps : RaceTick(d)

RaceSpec == Init /\ [][RaceNext]_vars

\* ================================================================ claims
\* What the claims speak about, read off the history a call leaves.

\* The call of caller c has returned.
Returned(c) == task[c].pc = "done"

\* The directory request of the call of caller c failed.
FetchFailed(c) == task[c].fetched /\ ~task[c].fetchOk /\ Len(task[c].before) = 1

\* The snapshot persisted when the directory request of caller c failed: the
\* one with coordinates when it has providers, the legacy one otherwise.
PersistedSnapshot(c) ==
    LET b == task[c].before[1]
    IN IF b.v2.has /\ Len(b.v2.providers) > 0 THEN b.v2.providers
       ELSE IF b.legacy.has THEN b.legacy.providers
       ELSE << >>

\* A geocodeAddress call of the loop that gave the provider no coordinate.
CallFailed(call) == call.threw \/ ~call.located

\* ---------------------------------------------------------------- C1
\* C1: a call of syncProviders with forceRefresh = true issues the directory
\* request, whatever the last-sync timestamp and the persisted snapshot are,
\* and so also when the timestamp is within the freshness window and the
\* snapshot has providers.
C1_ForcedSyncFetches ==
    \A c \in Callers :
        (task[c].pc # "idle" /\ task[c].forceRefresh) => task[c].fetched

\* A forced call, made while the snapshot was fresh and non-empty, has issued
\* the request and returned.
C1_Witness ==
    \E c \in Callers :
        /\ Returned(c)
        /\ task[c].forceRefresh
        /\ task[c].fresh
        /\ task[c].fetched

\* ---------------------------------------------------------------- C2
\* C2: a call of syncProviders with forceRefresh = false, made while the
\* last-sync timestamp is within the 24-hour window and the persisted snapshot
\* has providers, returns exactly that snapshot with success = true, without
\* a directory request, without a geocoding lookup and without writing any
\* persisted key.
C2_FreshSnapshotServed ==
    [][ \A c \in Callers :
          ( /\ syncs' = syncs + 1
            /\ task'[c].n = syncs'
            /\ ~task'[c].forceRefresh
            /\ storage.last_sync.has
            /\ now - storage.last_sync.at <= maxAgeHours
            /\ storage.providers_with_coordinates.has
            /\ Len(storage.providers_with_coordinates.providers) > 0 )
          => ( /\ task'[c].pc = "done"
               /\ ~task'[c].fetched
               /\ task'[c].calls = << >>
               /\ task'[c].result.success
               /\ task'[c].result.data = storage.providers_with_coordinates.providers
               /\ storage' = storage
               /\ cache' = cache ) ]_vars

\* An unforced call made on a fresh, non-empty snapshot has returned it.
C2_Witness ==
    \E c \in Callers :
        /\ Returned(c)
        /\ ~task[c].forceRefresh
        /\ task[c].fresh
        /\ ~task[c].fetched
        /\ task[c].result.success
        /\ Len(task[c].result.data) > 0
        /\ task[c].result.data = storage.providers_with_coordinates.providers

\* ---------------------------------------------------------------- C3
\* C3: when the directory request fails while a snapshot with providers is
\* persisted, syncProviders returns success = true with that snapshot,
\* coordinates included, and a message that says the data comes from the
\* cache.
C3_FailedFetchServesSnapshot ==
    \A c \in Callers :
        (Returned(c) /\ FetchFailed(c) /\ Len(PersistedSnapshot(c)) > 0)
        => ( /\ task[c].result.success
             /\ task[c].result.data = PersistedSnapshot(c)
             /\ task[c].result.message \in {MsgFullCacheFallback, MsgCacheFallback} )

\* A failed request was answered with a persisted snapshot that carries a
\* coordinate.
C3_Witness ==
    \E c \in Callers :
        /\ Returned(c)
        /\ FetchFailed(c)
        /\ Len(PersistedSnapshot(c)) > 0
        /\ task[c].result.success
        /\ task[c].result.data = PersistedSnapshot(c)
        /\ \E k \in 1..Len(task[c].result.data) :
               HasCoord(task[c].result.data[k].coordinates)

\* ---------------------------------------------------------------- C4
\* C4 as stated: syncProviders returns success = false when the directory
\* request failed and no snapshot is persisted, and success = true in every
\* other combination of request, geocoding and storage outcomes.
C4_FailureOnlyWithoutSnapshot ==
    \A c \in Callers :
        Returned(c)
        => ( ~task[c].result.success
             <=> (FetchFailed(c) /\ Len(PersistedSnapshot(c)) = 0) )

\* C4 amended: syncProviders returns success = false when the directory
\* request failed and no snapshot could be loaded, because none is persisted
\* or because the storage rejected the read, and success = true otherwise.
C4_FailureOnlyWithoutReadableSnapshot ==
    \A c \in Callers :
        Returned(c)
        => ( ~task[c].result.success
             <=> ( /\ FetchFailed(c)
                   /\ (~task[c].before[1].up \/ Len(PersistedSnapshot(c)) = 0) ) )

\* A call whose request failed while the storage rejected the read of a
\* persisted snapshot has returned success = false.
C4_Witness ==
    \E c \in Callers :
        /\ Returned(c)
        /\ FetchFailed(c)
        /\ ~task[c].before[1].up
        /\ Len(PersistedSnapshot(c)) > 0
        /\ ~task[c].result.success

\* ---------------------------------------------------------------- C5
\* C5: when the directory has N >= 1 providers, none with a reusable
\* coordinate, and the geocoding of exactly one of them fails, syncProviders
\* returns success = true with N records of which exactly one, the failed
\* one, lacks a coordinate; the providers after the failed one are geocoded
\* all the same.
C5_OneFailureOneGap ==
    \A c \in Callers :
        ( /\ Returned(c)
          /\ task[c].fetchOk
          /\ Len(task[c].apiData) >= 1
          /\ task[c].todo = Len(task[c].apiData)
          /\ Cardinality({k \in 1..Len(task[c].calls) :
                              CallFailed(task[c].calls[k])}) = 1 )
        => ( /\ task[c].result.success
             /\ Len(task[c].result.data) = Len(task[c].apiData)
             /\ Len(task[c].calls) = Len(task[c].apiData)
             /\ \A k \in 1..Len(task[c].calls) :
                    \E j \in 1..Len(task[c].result.data) :
                        /\ task[c].result.data[j].id = task[c].calls[k].id
                        /\ HasCoord(task[c].result.data[j].coordinates)
                               <=> ~CallFailed(task[c].calls[k])
             /\ Cardinality({j \in 1..Len(task[c].result.data) :
                                 ~HasCoord(task[c].result.data[j].coordinates)}) = 1 )

\* Two providers were to be geocoded, the first failed, the second got its
\* coordinate, and the call returned both.
C5_Witness ==
    \E c \in Callers :
        /\ Returned(c)
        /\ task[c].fetchOk
        /\ Len(task[c].apiData) = 2
        /\ task[c].todo = 2
        /\ Len(task[c].calls) = 2
        /\ CallFailed(task[c].calls[1])
        /\ ~CallFailed(task[c].calls[2])
        /\ task[c].result.success
        /\ Len(task[c].result.data) = 2

\* ------------------------------------------------- geocodeAddress claims
\* The entry the coordinate cache held for the key of the last call was
\* younger than the expiry window at the call.
ValidEntryAtCall ==
    /\ HasCoord(last.entry)
    /\ last.at - last.entry.geocoded_at < coordinatesCacheTimeout

\* The rows of the static table for a city, case-folded and trimmed.
tableEntries ==
    [c \in CityTexts |-> {e \in cityCoordinates : e[1] = trim(toLowerCase(c))}]

\* The records produced so far by the call of caller c.
Produced(c) == IF Returned(c) THEN task[c].result.data ELSE task[c].geocoded

\* ---------------------------------------------------------------- C6
\* C6: when the coordinate cache holds, under the normalized key, an entry
\* younger than 90 days, geocodeAddress returns that entry, issues no remote
\* request and writes neither the cache nor its persisted copy.
C6_ValidEntryServed ==
    (last.op = "geocodeAddress" /\ ValidEntryAtCall)
    => ( /\ ~last.threw
         /\ last.returned = last.entry
         /\ ~last.remote
         /\ ~last.wrote )

\* A call was answered from an entry written by an earlier call under other
\* spelling of the same address and city.
C6_Witness ==
    /\ last.op = "geocodeAddress"
    /\ ValidEntryAtCall
    /\ last.returned = last.entry
    /\ ~last.remote
    /\ last.address = RueALoose

\* ---------------------------------------------------------------- C7
\* C7: an entry older than the 90-day window is never returned by
\* geocodeAddress: the call goes on to the remote lookup, and a coordinate
\* it returns carries the time of the call.
C7_ExpiredEntryNotServed ==
    ( /\ last.op = "geocodeAddress"
      /\ HasCoord(last.entry)
      /\ last.at - last.entry.geocoded_at > coordinatesCacheTimeout )
    => ( /\ last.remote
         /\ last.returned # last.entry
         /\ HasCoord(last.returned) => last.returned.geocoded_at = last.at )

\* A call found an entry older than the window and returned a coordinate
\* resolved anew.
C7_Witness ==
    /\ last.op = "geocodeAddress"
    /\ HasCoord(last.entry)
    /\ last.at - last.entry.geocoded_at > coordinatesCacheTimeout
    /\ last.remote
    /\ HasCoord(last.returned)
    /\ last.returned.geocoded_at = last.at

\* ---------------------------------------------------------------- C8
\* C8: without a valid entry, when the remote lookup fails or finds nothing
\* and the city, case-folded and trimmed, is in the static table,
\* geocodeAddress returns the table's latitude and longitude with source
\* fallback and accuracy city_level, and only after the remote lookup was
\* attempted.
C8_FallbackFromTable ==
    ( /\ last.op = "geocodeAddress"
      /\ ~last.threw
      /\ ~ValidEntryAtCall
      /\ ~last.found
      /\ tableEntries[last.city] # {} )
    => ( /\ last.remote
         /\ HasCoord(last.returned)
         /\ last.returned.geocoding_source = "fallback"
         /\ last.returned.accuracy = "city_level"
         /\ \E e \in tableEntries[last.city] :
                /\ last.returned.latitude = e[2]
                /\ last.returned.longitude = e[3] )

\* A call for "COTONOU " whose remote lookup gave nothing returned the
\* table's coordinate of cotonou.
C8_Witness ==
    /\ last.op = "geocodeAddress"
    /\ last.city = CotonouUpper
    /\ last.remote
    /\ ~last.found
    /\ last.returned.geocoding_source = "fallback"
    /\ last.returned.latitude = 63654
    /\ last.returned.longitude = 24183

\* ---------------------------------------------------------------- C9
\* C9: when geocodeAddress(address, city) has returned a coordinate, a
\* second call with the same arguments within the expiry window, with no
\* clear in between, is answered from the cache without a remote request,
\* for every address, empty or not.
C9_RepeatServedFromStore ==
    (last.op = "geocodeAddress" /\ last.repeat) => ~last.remote

\* ---------------------------------------------------------------- C10
\* C10: when the remote lookup gives no usable result and the city is not in
\* the static table, geocodeAddress returns no coordinate without throwing
\* and adds no entry to the cache, and geocodeProviders keeps the record of
\* that provider, without a coordinate.
C10_UnresolvedKeptWithoutCoordinate ==
    \A c \in Callers :
        \A k \in 1..Len(task[c].calls) :
            LET call == task[c].calls[k]
            IN (call.remote /\ ~call.found /\ tableEntries[call.city] = {})
               => ( /\ ~call.threw
                    /\ ~call.located
                    /\ ~call.added
                    /\ \E j \in 1..Len(Produced(c)) : Produced(c)[j].id = call.id
                    /\ \A j \in 1..Len(Produced(c)) :
                           Produced(c)[j].id = call.id
                           => ~HasCoord(Produced(c)[j].coordinates) )

\* A call of syncProviders has returned a record without coordinate for a
\* provider of a city missing from the table whose remote lookup gave nothing.
C10_Witness ==
    \E c \in Callers :
        /\ Returned(c)
        /\ task[c].result.success
        /\ \E k \in 1..Len(task[c].calls) :
               /\ task[c].calls[k].remote
               /\ ~task[c].calls[k].found
               /\ tableEntries[task[c].calls[k].city] = {}
               /\ ~task[c].calls[k].added
               /\ \E j \in 1..Len(task[c].result.data) :
                      /\ task[c].result.data[j].id = task[c].calls[k].id
                      /\ ~HasCoord(task[c].result.data[j].coordinates)

\* ---------------------------------------------------- reconciliation claims
\* The providers of the persisted snapshot with coordinates.
Snapshot == IF storage.providers_with_coordinates.has
            THEN storage.providers_with_coordinates.providers
            ELSE << >>

\* Caller c's directory request succeeds in this step.
FetchSucceedsStep(c) == task[c].pc = "fetch" /\ task'[c].fetchOk

\* Caller c's call, whose directory request succeeded, returns in this step.
FetchedSyncReturns(c) ==
    /\ task[c].pc \in {"fetch", "geocode"}
    /\ task'[c].pc = "done"
    /\ task'[c].fetchOk

\* ---------------------------------------------------------------- C11
\* C11: needsGeocodingUpdate(freshRecords) is true if and only if no snapshot
\* is cached, or no metadata is present, or the metadata's total differs from
\* the number of fresh records, or a fresh identifier is missing from the
\* snapshot, or a provider present in both has another address or city; it
\* writes no store.
C11_NeedsUpdateIffACheckFails ==
    [][ \A c \in Callers :
          FetchSucceedsStep(c)
          => LET F == task'[c].apiData
             IN /\ task'[c].needsUpdate
                   <=> \/ Len(Snapshot) = 0
                       \/ ~storage.geocoding_metadata.has
                       \/ storage.geocoding_metadata.total_providers # Len(F)
                       \/ \E i \in 1..Len(F) :
                             \A j \in 1..Len(Snapshot) : Snapshot[j].id # F[i].id
                       \/ \E i \in 1..Len(F) : \E j \in 1..Len(Snapshot) :
                             /\ Snapshot[j].id = F[i].id
                             /\ \/ Snapshot[j].address # F[i].address
                                \/ Snapshot[j].city # F[i].city
                /\ task'[c].pc = "geocode" => storage' = storage ]_vars

\* A second sync found the same identifiers with another address or city
\* for one of them, and needsGeocodingUpdate answered true.
C11_Witness ==
    \E c \in Callers :
        /\ task[c].n = 2
        /\ task[c].fetchOk
        /\ task[c].needsUpdate
        /\ task[c].moved # {}

\* ---------------------------------------------------------------- C12
\* C12 as stated: after a sync that fetched directory F successfully has
\* completed, needsGeocodingUpdate(F) is false, for every directory F.
C12_SettledAfterSync ==
    [][ \A c \in Callers :
          FetchedSyncReturns(c)
          => ~needsGeocodingUpdate(storage', storageUp', task'[c].apiData) ]_vars

\* C12 amended: after a sync that fetched a directory F with at least one
\* provider successfully has completed, needsGeocodingUpdate(F) is false,
\* whether or not every provider could be geocoded.
C12_SettledAfterNonEmptySync ==
    [][ \A c \in Callers :
          (FetchedSyncReturns(c) /\ Len(task'[c].apiData) > 0)
          => ~needsGeocodingUpdate(storage', storageUp', task'[c].apiData) ]_vars

\* A sync has returned a directory with a provider it could not geocode, and
\* needsGeocodingUpdate of that directory is false.
C12_Witness ==
    \E c \in Callers :
        /\ Returned(c)
        /\ task[c].fetchOk
        /\ Len(task[c].apiData) > 0
        /\ \E k \in 1..Len(task[c].result.data) :
               ~HasCoord(task[c].result.data[k].coordinates)
        /\ ~needsGeocodingUpdate(storage, storageUp, task[c].apiData)

\* ---------------------------------------------------------------- C13
\* C13: when the snapshot holds provider P with a valid coordinate and the
\* directory returns P with another address or city, geocodeAddress is called
\* for P during the sync, so that P does not keep the coordinate of the old
\* address.
C13_MovedProviderResolvedAgain ==
    \A c \in Callers :
        (Returned(c) /\ task[c].fetchOk)
        => \A id \in task[c].moved :
               \E k \in 1..Len(task[c].calls) : task[c].calls[k].id = id

\* ---------------------------------------------------------------- C14
\* C14: when the directory request succeeds and needsGeocodingUpdate is
\* false, syncProviders returns the fresh records merged with the cached
\* coordinates and calls geocodeAddress for none of them, also not for those
\* without a coordinate in the snapshot.
C14_NoUpdateNoGeocoding ==
    [][ \A c \in Callers :
          (FetchSucceedsStep(c) /\ ~task'[c].needsUpdate)
          => LET F == task'[c].apiData
                 data == task'[c].result.data
             IN /\ task'[c].pc = "done"
                /\ task'[c].calls = << >>
                /\ task'[c].result.success
                /\ Len(data) = Len(F)
                /\ \A i \in 1..Len(F) :
                      /\ data[i].id = F[i].id
                      /\ data[i].address = F[i].address
                      /\ data[i].city = F[i].city
                      /\ \E j \in 1..Len(Snapshot) :
                            /\ Snapshot[j].id = F[i].id
                            /\ Snapshot[j].coordinates = data[i].coordinates ]_vars

\* A sync that needed no update has returned a record without coordinate
\* and has called geocodeAddress for none.
C14_Witness ==
    \E c \in Callers :
        /\ Returned(c)
        /\ task[c].fetchOk
        /\ ~task[c].needsUpdate
        /\ task[c].calls = << >>
        /\ \E k \in 1..Len(task[c].result.data) :
               ~HasCoord(task[c].result.data[k].coordinates)

\* ---------------------------------------------------------------- C15
\* C15: within one syncProviders call the geocodeAddress calls of the loop
\* follow one another, and between two consecutive ones delay() elapses,
\* whether the earlier one returned a coordinate, returned none, or threw.
C15_DelayBetweenCalls ==
    \A c \in Callers :
        \A k \in 2..Len(task[c].calls) : task[c].calls[k].delayed

\* ---------------------------------------------------------------- C17
\* C17: when a syncProviders call whose directory request succeeded with at
\* least one provider returns, the persisted snapshot is the list it
\* returns, the metadata's total_providers is the length of that list and
\* geocoded_providers the number of its records with a coordinate, and
\* last_sync is the time of this call.
C17_PersistedAfterSync ==
    [][ \A c \in Callers :
          (FetchedSyncReturns(c) /\ Len(task'[c].apiData) > 0)
          => LET data == task'[c].result.data
             IN /\ task'[c].result.success
                /\ storage'.providers_with_coordinates.has
                /\ storage'.providers_with_coordinates.providers = data
                /\ storage'.geocoding_metadata.has
                /\ storage'.geocoding_metadata.total_providers = Len(data)
                /\ storage'.geocoding_metadata.geocoded_providers =
                       Cardinality({k \in 1..Len(data) :
                                        HasCoord(data[k].coordinates)})
                /\ storage'.last_sync.has
                /\ storage'.last_sync.at = now' ]_vars

\* A sync made a day or more after an earlier one has returned two records,
\* one without coordinate, and the storage holds them with the new time.
C17_Witness ==
    \E c \in Callers :
        /\ Returned(c)
        /\ task[c].fetchOk
        /\ task[c].n = 2
        /\ now > 0
        /\ Len(task[c].result.data) = 2
        /\ storage.providers_with_coordinates.providers = task[c].result.data
        /\ storage.geocoding_metadata.total_providers = 2
        /\ storage.geocoding_metadata.geocoded_providers = 1
        /\ storage.last_sync.at = now

\* ---------------------------------------------------------------- C18
\* C18: once clearCache() has returned, the persisted snapshots, coordinate
\* cache, metadata and last_sync are absent and the in-memory coordinate
\* cache is empty until a syncProviders or geocodeAddress call made after
\* the clear writes them, also when a syncProviders call was in progress at
\* the clear.
C18_ClearedUntilNextCall ==
    last.op = "clearCache"
    => ( /\ ~storage.providers.has
         /\ ~storage.providers_with_coordinates.has
         /\ ~storage.geocoding_cache.has
         /\ ~storage.geocoding_metadata.has
         /\ ~storage.last_sync.has
         /\ cache = EmptyMap )

\* ---------------------------------------------------------------- C16
\* C16: overlapping syncProviders calls are serialized: while one call is
\* between its directory request and its last write, no other call runs its
\* own request, geocoding loop and writes.
C16_OneSyncAtATime ==
    Cardinality({c \in Callers : task[c].pc \in {"fetch", "geocode", "delay"}}) <= 1

\* ---------------------------------------------------------------- C19
\* C19: when the storage rejects every read, write and remove, no operation
\* of GeocodingService (initialize, saveCache, geocodeAddress,
\* cleanExpiredCache, clearCache) raises to its caller.
C19_ClearNeverRaises ==
    last.op = "geocoding.clearCache" => ~last.threw

\* ---------------------------------------------------------------- C20
\* A record meets the type, city, sector, agreement and text criteria the
\* filter gives.
MeetsCriteria(p, f) ==
    /\ TruthyText(f.type)
          => includes(toLowerCase(p.provider_type), toLowerCase(f.type.v))
    /\ TruthyText(f.city) => includes(toLowerCase(p.city), toLowerCase(f.city.v))
    /\ f.sector.has => p.sector = f.sector.v
    /\ f.agreeged.has => p.agreeged = f.agreeged.v
    /\ TruthyText(f.searchText)
          => \/ includes(toLowerCase(p.title), toLowerCase(f.searchText.v))
             \/ includes(toLowerCase(p.address), toLowerCase(f.searchText.v))
             \/ includes(toLowerCase(p.provider_type), toLowerCase(f.searchText.v))
             \/ \E e \in 1..Len(p.emails) :
                   includes(toLowerCase(p.emails[e]), toLowerCase(f.searchText.v))

\* C20: for any list and any filter with a near-location point (any latitude
\* and longitude, any radius, 10 km when none is given), filterProviders
\* returns only records with a coordinate whose distance to the point is at
\* most the radius, each with that distance attached, in order of
\* non-decreasing distance; a filter without near-location point keeps the
\* records without coordinate that meet its other criteria.
C20_RadiusFilter ==
    last.op = "filter"
    => LET f == last.filter
           near == f.nearLocation
           R == last.result
           radius == (IF near.radiusKm.has THEN near.radiusKm.v ELSE 10) * 1000000
       IN IF near.has
          THEN /\ \A k \in 1..Len(R) :
                     /\ HasCoord(R[k].coordinates)
                     /\ R[k].distance_from_user =
                            calculateDistance(near.latitude, near.longitude,
                                              R[k].coordinates.latitude,
                                              R[k].coordinates.longitude)
                     /\ R[k].distance_from_user <= radius
               /\ \A k \in 1..(Len(R) - 1) :
                     R[k].distance_from_user <= R[k + 1].distance_from_user
          ELSE \A i \in 1..Len(last.providers) :
                  ( /\ ~HasCoord(last.providers[i].coordinates)
                    /\ MeetsCriteria(last.providers[i], f) )
                  => \E k \in 1..Len(R) : R[k].id = last.providers[i].id

\* ------------------------------------------------------- later sync claims
\* Caller c's call, whose directory request failed, returns in this step.
FailedSyncReturns(c) ==
    /\ task[c].pc = "fetch"
    /\ task'[c].pc = "done"
    /\ ~task'[c].fetchOk

\* ---------------------------------------------------------------- C21
\* C21: no record returned by a syncProviders call whose directory request
\* succeeded carries a coordinate whose geocoded_at is more than 90 days
\* before the return, also when the provider's address and city are those of
\* the persisted snapshot.
C21_NoExpiredCoordinateReturned ==
    [][ \A c \in Callers :
          FetchedSyncReturns(c)
          => \A k \in 1..Len(task'[c].result.data) :
                HasCoord(task'[c].result.data[k].coordinates)
                => now' - task'[c].result.data[k].coordinates.geocoded_at
                       <= coordinatesCacheTimeout ]_vars

\* ---------------------------------------------------------------- C22
\* C22: whenever the directory request succeeds, with an empty directory
\* too, syncProviders returns one record per fetched record, in the order of
\* the directory when nothing had to be geocoded, and never an earlier
\* snapshot.
C22_FetchedDirectoryReturned ==
    [][ \A c \in Callers :
          FetchedSyncReturns(c)
          => LET F == task'[c].apiData
                 data == task'[c].result.data
             IN /\ Len(data) = Len(F)
                /\ \A i \in 1..Len(F) :
                      \E k \in 1..Len(data) :
                          /\ data[k].id = F[i].id
                          /\ data[k].address = F[i].address
                          /\ data[k].city = F[i].city ]_vars

\* ---------------------------------------------------------------- C27
\* C27: a syncProviders call whose directory request failed writes neither
\* last_sync nor the snapshots nor the metadata, so that isCacheExpired
\* answers after it as it did before.
C27_FailedFetchWritesNothing ==
    [][ \A c \in Callers :
          FailedSyncReturns(c)
          => /\ storage'.last_sync = storage.last_sync
             /\ storage'.providers = storage.providers
             /\ storage'.providers_with_coordinates = storage.providers_with_coordinates
             /\ storage'.geocoding_metadata = storage.geocoding_metadata
             /\ isCacheExpired(storage', storageUp', now')
                    = isCacheExpired(storage, storageUp, now) ]_vars

\* The identifiers of a list of records.
Ids(providers) == {providers[i].id : i \in 1..Len(providers)}

\* ---------------------------------------------------------------- C25
\* C25: when a syncProviders call whose directory request succeeded returns,
\* the identifiers of the persisted snapshot with coordinates are those of
\* the fetched directory: the list is replaced as a whole, and a provider
\* that left the directory has left the snapshot.
C25_SnapshotIdsAreDirectoryIds ==
    [][ \A c \in Callers :
          FetchedSyncReturns(c)
          => /\ storage'.providers_with_coordinates.has
             /\ Ids(storage'.providers_with_coordinates.providers)
                    = Ids(task'[c].apiData)
             /\ Len(storage'.providers_with_coordinates.providers)
                    = Len(task'[c].apiData) ]_vars

\* A second sync has fetched a directory that lacks a provider the first
\* sync stored; the snapshot holds the identifiers of the second directory.
C25_Witness ==
    \E c \in Callers :
        /\ Returned(c)
        /\ task[c].fetchOk
        /\ task[c].n = 2
        /\ storage.providers.has
        /\ Ids(storage.providers.providers) \ Ids(task[c].apiData) # {}
        /\ storage.providers_with_coordinates.has
        /\ Ids(storage.providers_with_coordinates.providers) = Ids(task[c].apiData)

\* ---------------------------------------------------------------- C24
\* C24: geocodeProviders calls geocodeAddress for the records that have no
\* coordinate after the merge, once each and for no other; a record that has
\* one is returned with it unchanged; and the list returned has one record for
\* each record given, with the same identifiers, so that a new provider in
\* the directory causes a call for that provider only.
C24_OnlyMissingAreResolved ==
    [][ \A c \in Callers :
          /\ (FetchSucceedsStep(c) /\ task'[c].needsUpdate)
             => LET merged == mergeWithCachedCoordinates(storage, storageUp,
                                                         task'[c].apiData, now)
                    missing == {i \in 1..Len(merged) : ~HasCoord(merged[i].coordinates)}
                IN IF missing = {}
                   THEN /\ task'[c].pc = "done"
                        /\ task'[c].calls = << >>
                        /\ Len(merged) > 0 => task'[c].result.data = merged
                   ELSE /\ task'[c].pc = "geocode"
                        /\ task'[c].calls = << >>
                        /\ Len(task'[c].pending) = Cardinality(missing)
                        /\ \A i \in 1..Len(merged) :
                              IF i \in missing
                              THEN \E k \in 1..Len(task'[c].pending) :
                                      task'[c].pending[k] = merged[i]
                              ELSE \E k \in 1..Len(task'[c].geocoded) :
                                      task'[c].geocoded[k] = merged[i]
                        /\ Len(task'[c].geocoded) + Len(task'[c].pending) = Len(merged)
          /\ (task[c].pc = "geocode" /\ task'[c].pc = "done")
             => LET given == task[c].geocoded
                    pending == task[c].pending
                    calls == task'[c].calls
                    data == task'[c].result.data
                IN /\ Len(calls) = Len(pending)
                   /\ \A k \in 1..Len(pending) : calls[k].id = pending[k].id
                   /\ Len(data) = Len(task'[c].apiData)
                   /\ \A id \in Ids(task'[c].apiData) \cup Ids(data) :
                         Cardinality({k \in 1..Len(data) : data[k].id = id})
                             = Cardinality({i \in 1..Len(task'[c].apiData) :
                                               task'[c].apiData[i].id = id})
                   /\ \A k \in 1..Len(given) :
                         HasCoord(given[k].coordinates) => data[k] = given[k] ]_vars

\* A second sync found one provider with its coordinate in the snapshot and
\* one new provider; it made one geocodeAddress call, for the new one, and
\* returned both.
C24_Witness ==
    \E c \in Callers :
        /\ Returned(c)
        /\ task[c].fetchOk
        /\ task[c].n = 2
        /\ task[c].needsUpdate
        /\ Len(task[c].apiData) = 2
        /\ Len(task[c].calls) = 1
        /\ Len(task[c].result.data) = 2
        /\ \E k \in 1..2 :
              /\ task[c].result.data[k].id # task[c].calls[1].id
              /\ HasCoord(task[c].result.data[k].coordinates)

\* ---------------------------------------------------------------- C30
\* C30: in the loop of geocodeProviders a provider whose city is empty is
\* resolved with the city 'COTONOU'; when its remote lookup fails or finds
\* nothing, the provider gets the table's coordinate of Cotonou with source
\* fallback and accuracy city_level, and its record is not left without a
\* coordinate.
C30_EmptyCityResolvedAsCotonou ==
    \A c \in Callers :
        \A k \in 1..Len(task[c].calls) :
            LET call == task[c].calls[k]
                F == task[c].apiData
            IN (\E i \in 1..Len(F) : F[i].id = call.id /\ F[i].city = << >>)
               => /\ call.city = << "C", "O", "T", "O", "N", "O", "U" >>
                  /\ ~call.threw => call.located
                  /\ (call.remote /\ ~call.found)
                     => \E j \in 1..Len(Produced(c)) :
                           /\ Produced(c)[j].id = call.id
                           /\ HasCoord(Produced(c)[j].coordinates)
                           /\ Produced(c)[j].coordinates.latitude = 63654
                           /\ Produced(c)[j].coordinates.longitude = 24183
                           /\ Produced(c)[j].coordinates.geocoding_source = "fallback"
                           /\ Produced(c)[j].coordinates.accuracy = "city_level"

\* A sync has returned a provider with an empty city whose remote lookup
\* gave nothing, with the coordinate of Cotonou from the table.
C30_Witness ==
    \E c \in Callers :
        /\ Returned(c)
        /\ task[c].result.success
        /\ \E k \in 1..Len(task[c].calls) :
              /\ task[c].calls[k].remote
              /\ ~task[c].calls[k].found
              /\ \E j \in 1..Len(task[c].result.data) :
                    /\ task[c].result.data[j].id = task[c].calls[k].id
                    /\ task[c].result.data[j].city = << >>
                    /\ task[c].result.data[j].coordinates.geocoding_source = "fallback"
                    /\ task[c].result.data[j].coordinates.latitude = 63654

\* ---------------------------------------------------------------- C23
\* C23: mergeWithCachedCoordinates(freshRecords) returns one record per
\* fresh record, in the same order, with the fresh record's identifier,
\* address and city; the record carries the coordinate the persisted
\* snapshot has for that identifier when it has one, whatever its age, and
\* none otherwise; nothing is written; a second run over the same records
\* and snapshot returns the same list apart from last_updated.
C23_MergeAttachesSnapshotCoordinates ==
    [][ (last'.op = "merge" /\ last' # last)
        => LET F == last'.fresh
               R == last'.result
               Unstamped(p) == [p EXCEPT !.last_updated = 0]
           IN /\ Len(R) = Len(F)
              /\ \A i \in 1..Len(F) :
                    /\ R[i].id = F[i].id
                    /\ R[i].address = F[i].address
                    /\ R[i].city = F[i].city
                    /\ IF \E j \in 1..Len(Snapshot) :
                             /\ Snapshot[j].id = F[i].id
                             /\ HasCoord(Snapshot[j].coordinates)
                       THEN \E j \in 1..Len(Snapshot) :
                               /\ Snapshot[j].id = F[i].id
                               /\ HasCoord(Snapshot[j].coordinates)
                               /\ R[i].coordinates = Snapshot[j].coordinates
                       ELSE ~HasCoord(R[i].coordinates)
              /\ storage' = storage
              /\ cache' = cache
              /\ last.op = "merge"
                 => /\ Len(last.result) = Len(R)
                    /\ \A i \in 1..Len(R) :
                          Unstamped(last.result[i]) = Unstamped(R[i]) ]_vars

\* A second run, made after the expiry window of the snapshot's coordinates
\* has passed, has returned two records: one with the coordinate of the
\* snapshot, one without.
C23_Witness ==
    /\ last.op = "merge"
    /\ last.runs = 2
    /\ Len(last.result) = 2
    /\ \E i \in 1..2 :
          /\ HasCoord(last.result[i].coordinates)
          /\ now - last.result[i].coordinates.geocoded_at > coordinatesCacheTimeout
    /\ \E i \in 1..2 : ~HasCoord(last.result[i].coordinates)

\* ---------------------------------------------------------------- C26
\* C26: every syncProviders call that has issued its directory request
\* returns in the end, also when the directory request or a lookup request
\* is never answered: an unanswered request is ended by a timeout and the
\* rest of the providers is processed.
C26_SyncEventuallyReturns ==
    \A c \in Callers : (task[c].pc = "fetch") ~> (task[c].pc = "done")

\* ---------------------------------------------------------------- C28
\* C28: isLoading of the store is true in every state in which a
\* fetchProviders call has started and not yet finished, however calls of
\* fetchProviders(false), fetchProviders(true) and refreshProviders overlap;
\* it is false once all have finished; and a fetchProviders(false) made while
\* isLoading is true returns without calling syncProviders.
C28_LoadingWhileFetching ==
    /\ (\E c \in Callers : ui[c].pc = "awaiting") => store.isLoading
    /\ (\A c \in Callers : ui[c].pc # "awaiting") => ~store.isLoading
    /\ \A c \in Callers :
          ui[c].pc = "skipped"
          => (~ui[c].forceRefresh /\ task[c].n <= ui[c].after)

\* ---------------------------------------------------------------- C29
\* C29: an entry of the in-memory coordinate cache leaves it only when it
\* has expired, however calls of geocodeAddress, initialize and
\* cleanExpiredCache overlap: the persisted cache is loaded into memory at
\* most once, and a load that completes after another call has added an
\* entry does not discard that entry.
C29_EntryKeptUntilExpired ==
    [][ /\ \A k \in (DOMAIN cache) \ (DOMAIN cache') :
              now - cache[k].geocoded_at >= coordinatesCacheTimeout
        /\ \A c \in Callers :
              (geo[c].pc = "loaded" /\ geo'[c].pc = "ready") => ~isInitialized
      ]_vars

====
